---- MODULE Spec2Model ----
(***************************************************************************)
(* MyCliApp (src/mycli.py): the authentication-state cache, its JSON       *)
(* state file, the login / logout / whoami commands and the JWT claim      *)
(* extractor.                                                              *)
(*                                                                         *)
(* Python and JSON values are tagged records: None/null, bool, number,     *)
(* string, list, dict/object, and the live credential object.  A dict is a *)
(* function from its keys to values.  The state file is modelled by the    *)
(* JSON value it holds (json.load followed by json.dump keeps that value), *)
(* or by the reason it cannot be read.  A write that raises IOError leaves *)
(* the file as it was (open(CONFIG_FILE, "w") is refused).                 *)
(***************************************************************************)
EXTENDS Integers, Sequences, FiniteSets, TLC

VARIABLES
    config_dir,       \* CONFIG_DIR on disk: "missing", "blocked" or "present"
    config_file,      \* CONFIG_FILE on disk (see FileAbsent .. FileJson)
    AZURE_AVAILABLE,  \* whether the azure imports succeeded in this installation
    auth_state,       \* _auth_state of the running process (a Python dict)
    pc,               \* "off", "ready" (module imported), "exited", "crashed",
                      \* "interrupted", "returned"
    command,          \* the command the running process was started for
    last,             \* what the most recent process did (observation)
    prev,             \* what the process before that one did (observation)
    token_string,     \* the argument of a parse_jwt_token call under test
    parsed,           \* what that call did (observation)
    cleared,          \* what repeated clear_auth_state calls did (observation)
    call,             \* what a function called on its own did (observation)
    procs             \* the processes that run at the same time

vars == <<config_dir, config_file, AZURE_AVAILABLE, auth_state, pc, command,
          last, prev, token_string, parsed, cleared, call, procs>>

cliVars == <<config_dir, config_file, AZURE_AVAILABLE, auth_state, pc, command,
             last, prev>>

jwtVars == <<token_string, parsed>>

clearVars == <<cleared>>

callVars == <<call>>

concVars == <<procs>>

(***************************************************************************)
(* Python / JSON values                                                    *)
(***************************************************************************)
PyNone == [t |-> "none"]

PyBool(b) == [t |-> "bool", b |-> b]

PyNum(n) == [t |-> "num", n |-> n]

PyStr(s) == [t |-> "str", s |-> s]

PyList(items) == [t |-> "list", items |-> items]

PyDict(m) == [t |-> "dict", m |-> m]

\* a live azure.identity credential object; kind is the class
PyCredential(kind) == [t |-> "credential", kind |-> kind]

EmptyMap == [k \in {} |-> PyNone]

\* bool(v)
Truthy(v) ==
    CASE v.t = "none" -> FALSE
      [] v.t = "bool" -> v.b
      [] v.t = "num" -> v.n # 0
      [] v.t = "str" -> v.s # ""
      [] v.t = "list" -> Len(v.items) > 0
      [] v.t = "dict" -> DOMAIN v.m # {}
      [] OTHER -> TRUE

\* a or b
PyOr(a, b) == IF Truthy(a) THEN a ELSE b

\* d.get(k, default) on the key -> value map of a dict
DictGet(m, k, default) == IF k \in DOMAIN m THEN m[k] ELSE default

\* d[k] = v
DictSet(m, k, v) == [x \in DOMAIN m \cup {k} |-> IF x = k THEN v ELSE m[x]]

\* d.update(e) for a dict e
DictMerge(m, e) ==
    [x \in DOMAIN m \cup DOMAIN e |-> IF x \in DOMAIN e THEN e[x] ELSE m[x]]

(***************************************************************************)
(* dict.update(x) for any value x, as load_auth_state calls it with what   *)
(* the file holds under "auth".  A dict is merged; an iterable is read as  *)
(* a sequence of key/value pairs, applied in order until one is not a      *)
(* pair; anything else is not iterable.                                    *)
(***************************************************************************)
IsPair(item) ==
    item.t = "list" /\ Len(item.items) = 2 /\ item.items[1].t = "str"

RECURSIVE ApplyPairs(_, _)
ApplyPairs(m, items) ==
    IF items = <<>> THEN [exc |-> "none", m |-> m]
    ELSE IF ~IsPair(Head(items)) THEN [exc |-> "TypeError", m |-> m]
    ELSE ApplyPairs(DictSet(m, Head(items).items[1].s, Head(items).items[2]),
                    Tail(items))

DictUpdate(m, x) ==
    CASE x.t = "dict" -> [exc |-> "none", m |-> DictMerge(m, x.m)]
      [] x.t = "list" -> ApplyPairs(m, x.items)
      [] x.t = "str" ->
            IF x.s = "" THEN [exc |-> "none", m |-> m]
            ELSE [exc |-> "ValueError", m |-> m]
      [] OTHER -> [exc |-> "TypeError", m |-> m]

(***************************************************************************)
(* The state file                                                          *)
(***************************************************************************)
FileAbsent == [k |-> "absent"]

\* exists, but open(CONFIG_FILE, "r") raises IOError
FileUnreadable == [k |-> "unreadable"]

\* readable, but json.load raises JSONDecodeError
FileMalformed == [k |-> "malformed"]

\* readable, holding the JSON value v
FileJson(v) == [k |-> "json", v |-> v]

FileExists(file) == file.k # "absent"

IsObjectFile(file) == file.k = "json" /\ file.v.t = "dict"

\* _auth_state as the module defines it
InitialAuthState ==
    [k \in {"is_authenticated", "user_info", "tenant_id", "credential"} |->
        IF k = "is_authenticated" THEN PyBool(FALSE) ELSE PyNone]

\* a variant of line 38 without exist_ok: CONFIG_DIR.mkdir()
ensure_config_dir_must_create(dir) ==
    IF dir # "missing" THEN [exc |-> "OSError", dir |-> dir]
    ELSE [exc |-> "none", dir |-> "present"]

\* ensure_config_dir(): the directory afterwards, or the OSError of mkdir
ensure_config_dir(dir) ==
    IF dir = "blocked" THEN [exc |-> "OSError", dir |-> dir]
    ELSE [exc |-> "none", dir |-> "present"]

\* a variant of line 47 that merges the whole document: update(data)
load_auth_state_whole_document(state, file) ==
    IF file.k # "json" THEN [exc |-> "none", state |-> state]
    ELSE LET upd == DictUpdate(state, file.v)
         IN  [exc |-> upd.exc, state |-> upd.m]

\* a variant of line 47 that replaces _auth_state by the defaults overlaid
\* with the auth object of the file
load_auth_state_replacing(state, file) ==
    CASE file.k = "absent" -> [exc |-> "none", state |-> state]
      [] file.k = "unreadable" -> [exc |-> "none", state |-> state]
      [] file.k = "malformed" -> [exc |-> "none", state |-> state]
      [] OTHER ->
            IF file.v.t # "dict"
            THEN [exc |-> "AttributeError", state |-> state]
            ELSE LET upd == DictUpdate(InitialAuthState,
                                DictGet(file.v.m, "auth", PyDict(EmptyMap)))
                 IN  [exc |-> upd.exc, state |-> upd.m]

\* load_auth_state(): the exception that leaves it (or "none") and _auth_state
load_auth_state(state, file) ==
    CASE file.k = "absent" -> [exc |-> "none", state |-> state]
      [] file.k = "unreadable" -> [exc |-> "none", state |-> state]
      [] file.k = "malformed" -> [exc |-> "none", state |-> state]
      [] OTHER ->
            IF file.v.t # "dict"
            THEN [exc |-> "AttributeError", state |-> state]
            ELSE LET upd == DictUpdate(state,
                                DictGet(file.v.m, "auth", PyDict(EmptyMap)))
                 IN  [exc |-> upd.exc, state |-> upd.m]

\* a variant of lines 62-66 that stores every field of _auth_state
AuthToSaveEveryField(state) == PyDict(state)

\* the "auth" object save_auth_state builds from _auth_state
AuthToSave(state) ==
    PyDict([k \in {"is_authenticated", "user_info", "tenant_id"} |-> state[k]])

\* a variant of lines 56-59 that does not read the existing file back
save_auth_state_fresh_document(state, dir, file, wr) ==
    LET mk == ensure_config_dir(dir)
    IN  IF mk.exc # "none" \/ wr # "ok"
        THEN [exc |-> mk.exc, swallowed |-> mk.exc = "none", wrote |-> FALSE,
              dir |-> mk.dir, file |-> file]
        ELSE [exc |-> "none", swallowed |-> FALSE, wrote |-> TRUE,
              dir |-> mk.dir,
              file |-> FileJson(PyDict(DictSet(EmptyMap, "auth",
                                               AuthToSave(state))))]

(***************************************************************************)
(* save_auth_state(), with wr the outcome of opening and writing the file   *)
(* ("ok" or "fail").  exc is the exception that leaves the function;        *)
(* swallowed says an IOError was caught inside; wrote says the file was     *)
(* rewritten.                                                               *)
(***************************************************************************)
save_auth_state(state, dir, file, wr) ==
    LET mk == ensure_config_dir(dir)
        stay(e, sw) == [exc |-> e, swallowed |-> sw, wrote |-> FALSE,
                        dir |-> mk.dir, file |-> file]
        write(config_data) ==
            IF wr = "ok"
            THEN [exc |-> "none", swallowed |-> FALSE, wrote |-> TRUE,
                  dir |-> mk.dir,
                  file |-> FileJson(PyDict(DictSet(config_data, "auth",
                                                   AuthToSave(state))))]
            ELSE stay("none", TRUE)
    IN  IF mk.exc # "none" THEN stay(mk.exc, FALSE)
        ELSE CASE file.k = "absent" -> write(EmptyMap)
               [] file.k = "unreadable" -> stay("none", TRUE)
               [] file.k = "malformed" -> stay("JSONDecodeError", FALSE)
               [] OTHER ->
                    IF file.v.t # "dict" THEN stay("TypeError", FALSE)
                    ELSE write(file.v.m)

\* is_authenticated(): the stored flag itself; callers test its truth value
is_authenticated(state) == DictGet(state, "is_authenticated", PyBool(FALSE))

(***************************************************************************)
(* parse_jwt_token                                                         *)
(*                                                                         *)
(* A token string is a sequence of characters: "." the separator, "A" any  *)
(* character of the base64url alphabet, "!" any ASCII character outside    *)
(* it (the decoder drops those).  What the decoded bytes of the payload    *)
(* segment read as is the input `bytes`: not UTF-8, not JSON, or a JSON    *)
(* value.  The decoder's rules on the number of data and padding           *)
(* characters are computed from the characters.                            *)
(***************************************************************************)
MaxTokenLen == 6

TokenChars == {".", "A", "!"}

NotUtf8 == [k |-> "notutf8"]

NotJson == [k |-> "notjson"]

JsonText(v) == [k |-> "json", v |-> v]

Token(chars, bytes) == [chars |-> chars, bytes |-> bytes]

\* str.split(sep)
RECURSIVE SplitAcc(_, _, _)
SplitAcc(chars, sep, cur) ==
    IF chars = <<>> THEN <<cur>>
    ELSE IF Head(chars) = sep
         THEN <<cur>> \o SplitAcc(Tail(chars), sep, <<>>)
         ELSE SplitAcc(Tail(chars), sep, Append(cur, Head(chars)))

Split(chars, sep) == SplitAcc(chars, sep, <<>>)

\* the number of "=" line 175 appends to a payload segment of length n
PaddingFor(n) == 4 - (n % 4)

Repeat(c, n) == [i \in 1..n |-> c]

Count(chars, c) == Cardinality({i \in 1..Len(chars) : chars[i] = c})

\* base64.urlsafe_b64decode(padded): characters outside the alphabet are
\* discarded; d data characters need d % 4 = 0, or 2 with two "=", or 3 with
\* one; the result is the number of bytes decoded
urlsafe_b64decode(padded) ==
    LET d == Count(padded, "A")
        p == Count(padded, "=")
        ok == \/ d % 4 = 0
              \/ d % 4 = 2 /\ p >= 2
              \/ d % 4 = 3 /\ p >= 1
        rest == CASE d % 4 = 2 -> 1 [] d % 4 = 3 -> 2 [] OTHER -> 0
    IN  IF ok THEN [exc |-> "none", nbytes |-> (d \div 4) * 3 + rest]
        ELSE [exc |-> "binascii.Error", nbytes |-> 0]

\* json.loads(decoded_bytes): no bytes are no JSON text
json_loads(nbytes, bytes) ==
    IF nbytes = 0 THEN [exc |-> "JSONDecodeError", v |-> PyNone]
    ELSE CASE bytes.k = "notutf8" -> [exc |-> "UnicodeDecodeError", v |-> PyNone]
           [] bytes.k = "notjson" -> [exc |-> "JSONDecodeError", v |-> PyNone]
           [] OTHER -> [exc |-> "none", v |-> bytes.v]

\* key in v: the keys of a dict, the items of a list, the substrings of a
\* string (a modelled string holds the key only when it is the key)
PyIn(key, v) ==
    CASE v.t = "dict" -> [exc |-> "none", b |-> key \in DOMAIN v.m]
      [] v.t = "list" ->
            [exc |-> "none",
             b |-> \E i \in 1..Len(v.items) : v.items[i] = PyStr(key)]
      [] v.t = "str" -> [exc |-> "none", b |-> v.s = key]
      [] OTHER -> [exc |-> "TypeError", b |-> FALSE]

\* v[key] for a string key
PyIndex(v, key) ==
    IF v.t = "dict" THEN [exc |-> "none", v |-> v.m[key]]
    ELSE [exc |-> "TypeError", v |-> PyNone]

\* v.get(key, default)
PyGet(v, key, default) ==
    IF v.t = "dict" THEN [exc |-> "none", v |-> DictGet(v.m, key, default)]
    ELSE [exc |-> "AttributeError", v |-> PyNone]

\* a variant of lines 185-192 that looks for email before unique_name
ResolveUserIdEmailFirst(payload_json) ==
    LET has(k) == PyIn(k, payload_json)
    IN  IF has("upn").exc # "none" THEN [exc |-> has("upn").exc, v |-> PyNone]
        ELSE IF has("upn").b THEN PyIndex(payload_json, "upn")
        ELSE IF has("email").b THEN PyIndex(payload_json, "email")
        ELSE IF has("unique_name").b THEN PyIndex(payload_json, "unique_name")
        ELSE PyGet(payload_json, "sub", PyStr("unknown"))

\* lines 185-192: the user_id, or the exception raised on the way
ResolveUserId(payload_json) ==
    LET has(k) == PyIn(k, payload_json)
    IN  IF has("upn").exc # "none" THEN [exc |-> has("upn").exc, v |-> PyNone]
        ELSE IF has("upn").b THEN PyIndex(payload_json, "upn")
        ELSE IF has("unique_name").b THEN PyIndex(payload_json, "unique_name")
        ELSE IF has("email").b THEN PyIndex(payload_json, "email")
        ELSE PyGet(payload_json, "sub", PyStr("unknown"))

\* a variant of line 195 that takes the name claim only when it is truthy:
\* payload_json.get("name") or user_info["user_id"]
DisplayNameIfTruthy(m, user_id) == PyOr(DictGet(m, "name", PyNone), user_id)

\* line 195: payload_json.get("name", user_info["user_id"])
DisplayName(m, user_id) == DictGet(m, "name", user_id)

\* a variant of lines 198-203 that reads tenant_id from the claim of that
\* name and leaves roles null when the claim is absent
ExtractUserInfoByFieldName(payload_json) ==
    LET uid == ResolveUserId(payload_json)
    IN  IF uid.exc # "none" THEN [exc |-> uid.exc, ret |-> PyNone]
        ELSE IF payload_json.t # "dict"
        THEN [exc |-> "AttributeError", ret |-> PyNone]
        ELSE LET m == payload_json.m
             IN  [exc |-> "none",
                  ret |-> PyDict([k \in {"user_id", "display_name", "tenant_id",
                                         "tenant_name", "object_id", "roles"} |->
                        CASE k = "user_id" -> uid.v
                          [] k = "display_name" -> DisplayName(m, uid.v)
                          [] k = "tenant_id" -> DictGet(m, "tenant_id", PyNone)
                          [] k = "tenant_name" -> DictGet(m, "tenant_name", PyNone)
                          [] k = "object_id" -> DictGet(m, "oid", PyNone)
                          [] OTHER -> DictGet(m, "roles", PyNone)])]

\* lines 181-205: the user_info record built from the decoded payload
ExtractUserInfo(payload_json) ==
    LET uid == ResolveUserId(payload_json)
    IN  IF uid.exc # "none" THEN [exc |-> uid.exc, ret |-> PyNone]
        ELSE IF payload_json.t # "dict"
        THEN [exc |-> "AttributeError", ret |-> PyNone]
        ELSE LET m == payload_json.m
             IN  [exc |-> "none",
                  ret |-> PyDict([k \in {"user_id", "display_name", "tenant_id",
                                         "tenant_name", "object_id", "roles"} |->
                        CASE k = "user_id" -> uid.v
                          [] k = "display_name" -> DisplayName(m, uid.v)
                          [] k = "tenant_id" -> DictGet(m, "tid", PyNone)
                          [] k = "tenant_name" -> DictGet(m, "tenant_name", PyNone)
                          [] k = "object_id" -> DictGet(m, "oid", PyNone)
                          [] OTHER -> DictGet(m, "roles", PyList(<<>>))])]

\* a variant of line 169 that accepts extra segments: len(parts) < 3
SegmentCountAtLeastThree(parts) == Len(parts) >= 3

\* line 169: the token has its three segments
SegmentCountOk(parts) == Len(parts) = 3

\* lines 167-205, the body of the try: the exception it raises (or "none"),
\* the value it returns, and whether and on what the decoder was called
ParseBody(token) ==
    LET parts == Split(token.chars, ".")
        none(e, dec, pd) == [exc |-> e, ret |-> PyNone, decoded |-> dec,
                             padded |-> pd]
    IN  IF ~SegmentCountOk(parts) THEN none("none", FALSE, <<>>)
        ELSE LET payload == parts[2] \o Repeat("=", PaddingFor(Len(parts[2])))
                 dec == urlsafe_b64decode(payload)
                 js == json_loads(dec.nbytes, token.bytes)
                 info == ExtractUserInfo(js.v)
             IN  IF dec.exc # "none" THEN none(dec.exc, TRUE, payload)
                 ELSE IF js.exc # "none" THEN none(js.exc, TRUE, payload)
                 ELSE IF info.exc # "none" THEN none(info.exc, TRUE, payload)
                 ELSE [exc |-> "none", ret |-> info.ret, decoded |-> TRUE,
                       padded |-> payload]

\* a variant of line 207 that catches the decoding errors only:
\* except (ValueError, binascii.Error)
CaughtByExceptValueError ==
    {"binascii.Error", "ValueError", "UnicodeDecodeError", "JSONDecodeError"}

\* the exceptions `except Exception` (line 207) catches: every exception the
\* body can raise derives from Exception
CaughtByExceptException ==
    {"binascii.Error", "ValueError", "UnicodeDecodeError", "JSONDecodeError",
     "TypeError", "AttributeError"}

\* parse_jwt_token(token_string): exc is the exception that leaves the
\* function, warned whether the warning of line 208 was printed
parse_jwt_token(token) ==
    LET body == ParseBody(token)
    IN  IF body.exc = "none"
        THEN [exc |-> "none", ret |-> body.ret, warned |-> FALSE,
              decoded |-> body.decoded, padded |-> body.padded]
        ELSE IF body.exc \in CaughtByExceptException
        THEN [exc |-> "none", ret |-> PyNone, warned |-> TRUE,
              decoded |-> body.decoded, padded |-> body.padded]
        ELSE [exc |-> body.exc, ret |-> PyNone, warned |-> FALSE,
              decoded |-> body.decoded, padded |-> body.padded]

(***************************************************************************)
(* The commands.  Each handler returns: the exception that leaves it (or   *)
(* "none"), what it printed, _auth_state, the disk, and what its call of   *)
(* save_auth_state did.                                                     *)
(***************************************************************************)
Out(kind, user, display, tenant) ==
    [kind |-> kind, user |-> user, display |-> display, tenant |-> tenant]

Notice(kind) == Out(kind, PyNone, PyNone, PyNone)

NoSave == [called |-> FALSE, exc |-> "none", swallowed |-> FALSE,
           wrote |-> FALSE, saved |-> PyNone]

SaveRecord(sv, state) ==
    [called |-> TRUE, exc |-> sv.exc, swallowed |-> sv.swallowed,
     wrote |-> sv.wrote, saved |-> AuthToSave(state)]

Handled(exc, out, state, dir, file, save) ==
    [exc |-> exc, out |-> out, state |-> state, dir |-> dir, file |-> file,
     save |-> save]

\* a variant of line 90 that falls back to the browser on any exception
get_azure_credential_any_error(tenant_id, available, az) ==
    LET browser == IF az.browser = "ok"
                   THEN PyCredential("InteractiveBrowserCredential")
                   ELSE PyNone
    IN  IF ~available THEN PyNone
        ELSE IF Truthy(tenant_id) THEN browser
        ELSE CASE az.cli = "ok" -> PyCredential("AzureCliCredential")
               [] OTHER -> browser

\* get_azure_credential(tenant_id): az.cli is what AzureCliCredential and
\* its test get_token do ("ok", "auth_error": ClientAuthenticationError,
\* "other_error"), az.browser what constructing InteractiveBrowserCredential
\* does ("ok", "raises")
get_azure_credential(tenant_id, available, az) ==
    LET browser == IF az.browser = "ok"
                   THEN PyCredential("InteractiveBrowserCredential")
                   ELSE PyNone
    IN  IF ~available THEN PyNone
        ELSE IF Truthy(tenant_id) THEN browser
        ELSE CASE az.cli = "ok" -> PyCredential("AzureCliCredential")
               [] az.cli = "auth_error" -> browser
               [] OTHER -> PyNone

\* lines 124-126
MarkAuthenticated(tenant_id, credential, state) ==
    [state EXCEPT !["is_authenticated"] = PyBool(TRUE),
                  !["credential"] = credential,
                  !["tenant_id"] = tenant_id]

FallbackUserInfo ==
    PyDict([k \in {"user_id", "display_name"} |->
        IF k = "user_id" THEN PyStr("authenticated_user@domain.com")
        ELSE PyStr("Authenticated User")])

\* a variant of line 134 that takes the tenant of the token whenever the
\* token has one
StoreUserInfoTokenTenantFirst(tenant_id, user_info, state) ==
    IF Truthy(user_info)
    THEN [state EXCEPT
            !["user_info"] = user_info,
            !["tenant_id"] =
                IF Truthy(DictGet(user_info.m, "tenant_id", PyNone))
                THEN user_info.m["tenant_id"]
                ELSE @]
    ELSE [state EXCEPT !["user_info"] = FallbackUserInfo]

\* lines 130-140: user_info is what parse_jwt_token returned
StoreUserInfo(tenant_id, user_info, state) ==
    IF Truthy(user_info)
    THEN [state EXCEPT
            !["user_info"] = user_info,
            !["tenant_id"] =
                IF ~Truthy(tenant_id)
                   /\ Truthy(DictGet(user_info.m, "tenant_id", PyNone))
                THEN user_info.m["tenant_id"]
                ELSE @]
    ELSE [state EXCEPT !["user_info"] = FallbackUserInfo]

\* lines 142-148: sv is what save_auth_state() did; an exception of it is
\* caught by `except Exception` and authenticate_user returns False
ReturnAfterSave(sv, state) ==
    [ret |-> sv.exc = "none", state |-> state, dir |-> sv.dir,
     file |-> sv.file, save |-> SaveRecord(sv, state)]

\* a variant of line 142 that returns True without calling save_auth_state
ReturnWithoutSaving(state, dir, file, wr) ==
    [ret |-> TRUE, state |-> state, dir |-> dir, file |-> file,
     save |-> NoSave]

\* lines 142-143
SaveAndReturn(state, dir, file, wr) ==
    ReturnAfterSave(save_auth_state(state, dir, file, wr), state)

\* lines 123-143, with jwt what parse_jwt_token(token.token) did
StoreParsed(tenant_id, credential, jwt, state, dir, file, wr) ==
    IF jwt.exc # "none"
    THEN [ret |-> FALSE,
          state |-> MarkAuthenticated(tenant_id, credential, state),
          dir |-> dir, file |-> file, save |-> NoSave]
    ELSE SaveAndReturn(
            StoreUserInfo(tenant_id, jwt.ret,
                          MarkAuthenticated(tenant_id, credential, state)),
            dir, file, wr)

\* lines 112-150, with the credential get_azure_credential returned
AuthenticateWith(credential, tenant_id, state, dir, file, az, wr) ==
    IF ~Truthy(credential) \/ az.get_token # "token"
    THEN [ret |-> FALSE, state |-> state, dir |-> dir, file |-> file,
          save |-> NoSave]
    ELSE StoreParsed(tenant_id, credential, parse_jwt_token(az.token), state,
                     dir, file, wr)

\* authenticate_user(tenant_id): az.get_token is what credential.get_token
\* does ("token", "falsy", "auth_error", "other_error"), az.token the token
\* string it returns
authenticate_user(tenant_id, state, dir, file, available, az, wr) ==
    IF ~available
    THEN [ret |-> FALSE, state |-> state, dir |-> dir, file |-> file,
          save |-> NoSave]
    ELSE AuthenticateWith(get_azure_credential(tenant_id, available, az),
                          tenant_id, state, dir, file, az, wr)

\* a handler that ends with save_auth_state(): sv is what the save did, out
\* what is printed after it when it returns
AfterSave(sv, state, out) ==
    Handled(sv.exc, IF sv.exc = "none" THEN out ELSE Notice("none"), state,
            sv.dir, sv.file, SaveRecord(sv, state))

SaveThen(state, dir, file, wr, out) ==
    AfterSave(save_auth_state(state, dir, file, wr), state, out)

\* a variant of line 160 that resets the flag only
clear_auth_state_flag_only(state, dir, file, wr, out) ==
    SaveThen([state EXCEPT !["is_authenticated"] = PyBool(FALSE)], dir, file,
             wr, out)

\* clear_auth_state(), followed by the caller printing out
clear_auth_state(state, dir, file, wr, out) ==
    SaveThen(DictMerge(state, InitialAuthState), dir, file, wr, out)

DemoUserInfo ==
    PyDict([k \in {"user_id", "display_name"} |->
        IF k = "user_id" THEN PyStr("demo.user@contoso.com")
        ELSE PyStr("Demo User")])

\* lines 355-357
DemoAuthenticated(tenant, state) ==
    [state EXCEPT
        !["is_authenticated"] = PyBool(TRUE),
        !["user_info"] = DemoUserInfo,
        !["tenant_id"] = PyOr(tenant, PyStr("demo-tenant-id"))]

\* lines 363-373, with au what authenticate_user(tenant) did
ReportLogin(tenant, au) ==
    Handled("none",
            IF au.ret
            THEN Out("authenticated",
                     DictGet(DictGet(au.state, "user_info",
                                     PyDict(EmptyMap)).m,
                             "user_id", PyStr("unknown")),
                     PyNone,
                     IF Truthy(tenant) THEN tenant ELSE PyNone)
            ELSE Notice("authentication_failed"),
            au.state, au.dir, au.file, au.save)

\* a variant of login without the early return of lines 340-342
login_without_guard(args, state, dir, file, available, az, wr) ==
    IF args.demo
    THEN SaveThen(DemoAuthenticated(args.tenant, state), dir, file, wr,
                  Out("authenticated_demo", PyStr("demo.user@contoso.com"),
                      PyNone, PyNone))
    ELSE ReportLogin(args.tenant,
                     authenticate_user(args.tenant, state, dir, file,
                                       available, az, wr))

\* login(tenant, use_device_code, demo)
login(args, state, dir, file, available, az, wr) ==
    IF Truthy(is_authenticated(state))
    THEN Handled("none", Notice("already_authenticated"), state, dir, file,
                 NoSave)
    ELSE IF args.demo
    THEN SaveThen(DemoAuthenticated(args.tenant, state), dir, file, wr,
                  Out("authenticated_demo", PyStr("demo.user@contoso.com"),
                      PyNone, PyNone))
    ELSE ReportLogin(args.tenant,
                     authenticate_user(args.tenant, state, dir, file,
                                       available, az, wr))

\* a variant of lines 378-380 without the early return
logout_always_clears(state, dir, file, wr) ==
    clear_auth_state(state, dir, file, wr, Notice("logged_out"))

\* logout()
logout(state, dir, file, wr) ==
    IF ~Truthy(is_authenticated(state))
    THEN Handled("none", Notice("not_authenticated"), state, dir, file, NoSave)
    ELSE clear_auth_state(state, dir, file, wr, Notice("logged_out"))

\* lines 396-406, with the user_info and tenant_id read from _auth_state
PrintIdentity(user_info, tenant_id, state, dir, file) ==
    IF user_info.t # "dict"
    THEN Handled("AttributeError", Notice("none"), state, dir, file, NoSave)
    ELSE Handled("none",
                 Out("identity",
                     DictGet(user_info.m, "user_id", PyStr("unknown")),
                     DictGet(user_info.m, "display_name", PyStr("unknown")),
                     PyOr(tenant_id, PyStr("common"))),
                 state, dir, file, NoSave)

\* whoami()
whoami(state, dir, file) ==
    IF ~Truthy(is_authenticated(state))
    THEN Handled("none", Notice("not_authenticated"), state, dir, file, NoSave)
    ELSE PrintIdentity(DictGet(state, "user_info", PyDict(EmptyMap)),
                       DictGet(state, "tenant_id", PyNone), state, dir, file)

\* lines 453-461 and click's standalone mode: the exit status of the process
ExitStatus(exc) == IF exc = "none" THEN 0 ELSE 1

(***************************************************************************)
(* Inputs                                                                  *)
(***************************************************************************)
\* a value a claim of a token payload, or a key of the state file, may hold
ClaimValue(k) ==
    CASE k = "upn" -> PyStr("alice@contoso.com")
      [] k = "unique_name" -> PyStr("alice.unique")
      [] k = "email" -> PyStr("alice@mail.example")
      [] k = "sub" -> PyStr("subject-1")
      [] k = "name" -> PyStr("Alice")
      [] k = "tid" -> PyStr("tenant-1")
      [] k = "tenant_name" -> PyStr("Contoso")
      [] k = "oid" -> PyStr("object-1")
      [] OTHER -> PyList(<<PyStr("Reader")>>)

ClaimsObject(keys) == PyDict([k \in keys |-> ClaimValue(k)])

\* the "auth" object of a state file written by a demo login
DemoAuth ==
    [k \in {"is_authenticated", "user_info", "tenant_id"} |->
        CASE k = "is_authenticated" -> PyBool(TRUE)
          [] k = "user_info" -> DemoUserInfo
          [] OTHER -> PyStr("demo-tenant-id")]

\* what a state file may hold under "auth": written by the program, edited
\* by hand, or left by another version
AuthValues ==
    { PyDict(DemoAuth),
      PyDict([k \in {"is_authenticated", "user_info", "tenant_id"} |->
                InitialAuthState[k]]),
      PyDict(DictSet(DemoAuth, "credential", PyStr("stale"))),
      PyDict([k \in {"is_authenticated"} |-> PyBool(TRUE)]),
      PyDict([k \in {"user_info"} |-> DemoUserInfo]),
      PyDict([k \in {"credential"} |-> PyStr("stale")]),
      PyDict([k \in {"is_authenticated", "user_info", "tenant_id"} |->
                CASE k = "is_authenticated" -> PyStr("yes")
                  [] k = "user_info" -> PyStr("someone")
                  [] OTHER -> PyNone]),
      PyDict(EmptyMap),
      PyNone, PyNum(5), PyStr(""), PyStr("ab"), PyList(<<>>),
      PyList(<<PyList(<<PyStr("is_authenticated"), PyBool(TRUE)>>)>>),
      PyList(<<PyNum(1)>>) }

OtherSettings == [k \in {"other_setting"} |-> PyStr("x")]

\* the JSON objects a state file may hold at its top level
TopLevelObjects ==
    {PyDict(EmptyMap), PyDict(OtherSettings)}
    \cup {PyDict([k \in {"auth"} |-> a]) : a \in AuthValues}
    \cup {PyDict(DictSet(OtherSettings, "auth", a)) : a \in AuthValues}

TopLevelOthers == {PyList(<<>>), PyNone, PyNum(5), PyStr("s")}

\* the disk a process may find: <<CONFIG_DIR, CONFIG_FILE>>
Disks ==
    {<<"missing", FileAbsent>>, <<"blocked", FileAbsent>>,
     <<"present", FileAbsent>>, <<"present", FileUnreadable>>,
     <<"present", FileMalformed>>}
    \cup {<<"present", FileJson(v)>> : v \in TopLevelObjects \cup TopLevelOthers}

Tenants == {PyNone, PyStr(""), PyStr("t1")}

\* the options of login: --tenant, --use-device-code, --demo
LoginOptions ==
    [tenant : Tenants, use_device_code : BOOLEAN, demo : BOOLEAN]

NoOptions == [tenant |-> PyNone, use_device_code |-> FALSE, demo |-> FALSE]

Commands == {"login", "logout", "whoami"}

WellFormedChars == <<"A", ".", "A", "A", "A", ".", "A">>

\* the token strings the identity SDK may return to a login
SdkTokens ==
    { Token(WellFormedChars, JsonText(ClaimsObject({"upn", "name", "tid"}))),
      Token(WellFormedChars, JsonText(ClaimsObject({"sub"}))),
      Token(WellFormedChars, JsonText(PyList(<<>>))),
      Token(<<"A", ".", "A">>, NotJson) }

\* what the identity SDK may do during one login
SdkBehaviours ==
    [cli : {"ok", "auth_error", "other_error"}, browser : {"ok", "raises"},
     get_token : {"token"}, token : SdkTokens]
    \cup [cli : {"ok", "auth_error", "other_error"}, browser : {"ok", "raises"},
          get_token : {"falsy", "auth_error", "other_error"},
          token : {Token(<<>>, NotJson)}]

\* the demo branch of login returns before any use of the SDK
SdkUnused ==
    [cli |-> "other_error", browser |-> "raises", get_token |-> "other_error",
     token |-> Token(<<>>, NotJson)]

WriteOutcomes == {"ok", "fail"}

TokenStrings == UNION {[1..n -> TokenChars] : n \in 0..MaxTokenLen}

DecodedBytes ==
    { NotUtf8, NotJson, JsonText(PyNone), JsonText(PyNum(5)),
      JsonText(PyBool(TRUE)), JsonText(PyStr("s")), JsonText(PyStr("upn")),
      JsonText(PyList(<<>>)), JsonText(PyList(<<PyStr("upn")>>)),
      JsonText(PyDict(EmptyMap)) }

IdentityClaims == {"upn", "unique_name", "email", "sub", "name", "tid"}

\* the other claims parse_jwt_token reads
OtherClaims == {"tenant_name", "oid", "roles"}

\* a payload whose claims ks are present with the JSON value null
NullClaimsObject(ks) == PyDict([k \in ks |-> PyNone])

\* the arguments parse_jwt_token is tried on
JwtInputs ==
    {Token(c, b) : c \in TokenStrings, b \in DecodedBytes}
    \cup {Token(c, JsonText(ClaimsObject(ks))) :
            c \in {WellFormedChars, <<".", "A", "A", ".">>},
            ks \in SUBSET (IdentityClaims \cup OtherClaims)}
    \cup {Token(WellFormedChars, JsonText(NullClaimsObject(ks))) :
            ks \in SUBSET {"upn", "sub", "name", "roles"}}

(***************************************************************************)
(* Observations                                                            *)
(***************************************************************************)
\* what credential.get_token and parse_jwt_token gave a login: "no_token"
\* when line 121 was not reached or returned no token, "no_claims" when the
\* token was returned and parse_jwt_token returned None, "claims" otherwise
TokenSeen(args, state, available, az) ==
    IF \/ Truthy(is_authenticated(state)) \/ args.demo \/ ~available
       \/ ~Truthy(get_azure_credential(args.tenant, available, az))
       \/ az.get_token # "token"
    THEN "no_token"
    ELSE IF parse_jwt_token(az.token).ret = PyNone THEN "no_claims"
    ELSE "claims"

\* what a process did: cmd, tenant and demo are its command line, exit its
\* exit status, ran whether its command handler was entered, token what the
\* SDK and the token parser gave it
Observed(cmd, opts, exc, out, save, ran, dir, file, before, after, token) ==
    [cmd |-> cmd, tenant |-> opts.tenant, demo |-> opts.demo,
     exit |-> ExitStatus(exc), exc |-> exc, out |-> out, save |-> save,
     ran |-> ran, dirBefore |-> dir, fileBefore |-> file,
     stateBefore |-> before, stateAfter |-> after, token |-> token]

NoRun ==
    Observed("none", NoOptions, "none", Notice("none"), NoSave, FALSE,
             "missing", FileAbsent, InitialAuthState, InitialAuthState,
             "no_token")

\* the module could not be imported: load_auth_state() of line 213 raised
ImportFailed(cmd, exc, dir, file) ==
    Observed(cmd, NoOptions, exc, Notice("traceback"), NoSave, FALSE, dir, file,
             InitialAuthState, InitialAuthState, "no_token")

\* the part of an observation kept of the process before the last one
Brief(obs) ==
    [cmd |-> obs.cmd, demo |-> obs.demo, exit |-> obs.exit,
     ran |-> obs.ran, kind |-> obs.out.kind,
     swallowed |-> obs.save.swallowed]

\* no function was called on its own
NoCall == [op |-> "none", n |-> 0]

\* the processes of a concurrent run, p.state the _auth_state of process p,
\* p.seen the file as its save read it
Procs == {1, 2}

ProcOff ==
    [pc |-> "off", cmd |-> "none", state |-> InitialAuthState,
     seen |-> FileAbsent, exc |-> "none", changed |-> FALSE]

NoProcs == [p \in Procs |-> ProcOff]

\* no clear_auth_state call was made
NotCleared ==
    [calls |-> 0, wr |-> "ok", stateBefore |-> InitialAuthState,
     fileBefore |-> FileAbsent,
     once |-> [exc |-> "none", state |-> InitialAuthState, dir |-> "missing",
               file |-> FileAbsent]]

NotParsed == [called |-> FALSE, exc |-> "none", ret |-> PyNone,
              warned |-> FALSE, decoded |-> FALSE, padded |-> <<>>]

(***************************************************************************)
(* The CLI: one process at a time, one command per process                 *)
(***************************************************************************)
Init ==
    /\ \E d \in Disks : config_dir = d[1] /\ config_file = d[2]
    /\ AZURE_AVAILABLE \in BOOLEAN
    /\ auth_state = InitialAuthState
    /\ pc = "off"
    /\ command = "none"
    /\ last = NoRun
    /\ prev = Brief(NoRun)
    /\ token_string = Token(<<>>, NotJson)
    /\ parsed = NotParsed
    /\ cleared = NotCleared
    /\ call = NoCall
    /\ procs = NoProcs

\* a process starts with one of the commands: the module is imported, line
\* 213 loads the state
StartWith(commands) ==
    /\ pc # "ready"
    /\ \E cmd \in commands :
         LET ld == load_auth_state(InitialAuthState, config_file)
         IN  /\ command' = cmd
             /\ auth_state' = ld.state
             /\ IF ld.exc = "none"
                THEN pc' = "ready" /\ UNCHANGED <<last, prev>>
                ELSE /\ pc' = "crashed"
                     /\ last' = ImportFailed(cmd, ld.exc, config_dir,
                                             config_file)
                     /\ prev' = Brief(last)
    /\ UNCHANGED <<config_dir, config_file, AZURE_AVAILABLE, jwtVars,
                    clearVars, callVars, concVars>>

Start == StartWith(Commands)

\* the command handler h has run to its end and the process exits
Finish(opts, token, h) ==
    /\ auth_state' = h.state
    /\ config_dir' = h.dir
    /\ config_file' = h.file
    /\ last' = Observed(command, opts, h.exc, h.out, h.save, TRUE, config_dir,
                        config_file, auth_state, h.state, token)
    /\ prev' = Brief(last)
    /\ pc' = "exited"
    /\ UNCHANGED <<AZURE_AVAILABLE, command, jwtVars, clearVars, callVars,
                   concVars>>

Login ==
    /\ pc = "ready" /\ command = "login"
    /\ \E opts \in LoginOptions, wr \in WriteOutcomes :
         \E az \in IF opts.demo THEN {SdkUnused} ELSE SdkBehaviours :
            Finish(opts, TokenSeen(opts, auth_state, AZURE_AVAILABLE, az),
                   login(opts, auth_state, config_dir, config_file,
                         AZURE_AVAILABLE, az, wr))

Logout ==
    /\ pc = "ready" /\ command = "logout"
    /\ \E wr \in WriteOutcomes :
         Finish(NoOptions, "no_token",
                logout(auth_state, config_dir, config_file, wr))

Whoami ==
    /\ pc = "ready" /\ command = "whoami"
    /\ Finish(NoOptions, "no_token",
              whoami(auth_state, config_dir, config_file))

Next == Start \/ Login \/ Logout \/ Whoami

Spec == Init /\ [][Next]_vars

(***************************************************************************)
(* parse_jwt_token on its own                                              *)
(***************************************************************************)
InitJwt ==
    /\ config_dir = "missing" /\ config_file = FileAbsent
    /\ AZURE_AVAILABLE = FALSE
    /\ auth_state = InitialAuthState
    /\ pc = "off"
    /\ command = "none"
    /\ last = NoRun
    /\ prev = Brief(NoRun)
    /\ token_string \in JwtInputs
    /\ parsed = NotParsed
    /\ cleared = NotCleared
    /\ call = NoCall
    /\ procs = NoProcs

ParseToken ==
    /\ ~parsed.called
    /\ LET r == parse_jwt_token(token_string)
       IN  parsed' = [called |-> TRUE, exc |-> r.exc, ret |-> r.ret,
                      warned |-> r.warned, decoded |-> r.decoded,
                      padded |-> r.padded]
    /\ UNCHANGED <<cliVars, token_string, clearVars, callVars, concVars>>

NextJwt == ParseToken

SpecJwt == InitJwt /\ [][NextJwt]_vars

(***************************************************************************)
(* clear_auth_state on its own, called twice in a row                      *)
(***************************************************************************)
\* _auth_state of a process after a login through the SDK
SignedInState(tenant, user_info) ==
    StoreUserInfo(tenant, user_info,
                  MarkAuthenticated(tenant,
                                    PyCredential("AzureCliCredential"),
                                    InitialAuthState))

\* the _auth_state values clear_auth_state is tried on: as loaded from a
\* state file, and as left by a login
AuthStates ==
    {load_auth_state(InitialAuthState, FileJson(v)).state :
        v \in {o \in TopLevelObjects :
                 load_auth_state(InitialAuthState, FileJson(o)).exc = "none"}}
    \cup {DemoAuthenticated(t, InitialAuthState) : t \in Tenants}
    \cup {SignedInState(t, u) :
            t \in Tenants,
            u \in {PyNone,
                   ExtractUserInfo(ClaimsObject({"upn", "name", "tid"})).ret}}

InitClear ==
    /\ \E d \in Disks : config_dir = d[1] /\ config_file = d[2]
    /\ auth_state \in AuthStates
    /\ AZURE_AVAILABLE = FALSE
    /\ pc = "ready"
    /\ command = "none"
    /\ last = NoRun
    /\ prev = Brief(NoRun)
    /\ token_string = Token(<<>>, NotJson)
    /\ parsed = NotParsed
    /\ cleared = NotCleared
    /\ call = NoCall
    /\ procs = NoProcs

\* one call of clear_auth_state(); the disk accepts or refuses the write of
\* the second call as it did that of the first
ClearAuthState ==
    /\ cleared.calls < 2
    /\ \E wr \in IF cleared.calls = 0 THEN WriteOutcomes ELSE {cleared.wr} :
         LET h == clear_auth_state(auth_state, config_dir, config_file, wr,
                                   Notice("none"))
         IN  /\ auth_state' = h.state
             /\ config_dir' = h.dir
             /\ config_file' = h.file
             /\ cleared' =
                   IF cleared.calls = 0
                   THEN [calls |-> 1, wr |-> wr, stateBefore |-> auth_state,
                         fileBefore |-> config_file,
                         once |-> [exc |-> h.exc, state |-> h.state,
                                   dir |-> h.dir, file |-> h.file]]
                   ELSE [cleared EXCEPT !.calls = 2]
    /\ UNCHANGED <<AZURE_AVAILABLE, pc, command, last, prev, jwtVars,
                    callVars, concVars>>

NextClear == ClearAuthState

SpecClear == InitClear /\ [][NextClear]_vars

(***************************************************************************)
(* The commands that only read: whoami, account, status, resource ...,     *)
(* config ...                                                              *)
(***************************************************************************)
account_saving(state, dir, file) ==
    IF ~Truthy(is_authenticated(state))
    THEN Handled("none", Notice("not_authenticated"), state, dir, file, NoSave)
    ELSE SaveThen(state, dir, file, "ok", Notice("identity"))

\* account(): lines 418-425 print what lines 396-406 of whoami print;
\* CONFIG_FILE.exists() (line 427) only selects one more line of output
account(state, dir, file) ==
    IF ~Truthy(is_authenticated(state))
    THEN Handled("none", Notice("not_authenticated"), state, dir, file, NoSave)
    ELSE PrintIdentity(DictGet(state, "user_info", PyDict(EmptyMap)),
                       DictGet(state, "tenant_id", PyNone), state, dir, file)

\* status(): user_info.get of line 437 is evaluated only when
\* is_authenticated() is truthy
status(state, dir, file) ==
    IF ~Truthy(is_authenticated(state))
    THEN Handled("none", Out("status", PyStr("None"), PyNone, PyNone),
                 state, dir, file, NoSave)
    ELSE IF DictGet(state, "user_info", PyDict(EmptyMap)).t # "dict"
    THEN Handled("AttributeError", Notice("none"), state, dir, file, NoSave)
    ELSE Handled("none",
                 Out("status",
                     DictGet(DictGet(state, "user_info", PyDict(EmptyMap)).m,
                             "user_id", PyStr("None")),
                     PyNone, PyNone),
                 state, dir, file, NoSave)

\* resource create, resource list, config set, config show: they print
\* their arguments and fixed data
dummy(kind, state, dir, file) ==
    Handled("none", Notice(kind), state, dir, file, NoSave)

\* resource delete: click.confirmation_option (line 294) aborts the command
\* when the user declines
resource_delete(confirmed, state, dir, file) ==
    IF confirmed
    THEN Handled("none", Notice("resource delete"), state, dir, file, NoSave)
    ELSE Handled("Abort", Notice("aborted"), state, dir, file, NoSave)

IdentityCommands == {"whoami", "account", "status"}

DummyCommands ==
    {"resource create", "resource list", "config set", "config show"}

ReadCommands == IdentityCommands \cup DummyCommands \cup {"resource delete"}

StartRead == StartWith(ReadCommands)

Account ==
    /\ pc = "ready" /\ command = "account"
    /\ Finish(NoOptions, "no_token",
              account(auth_state, config_dir, config_file))

Status ==
    /\ pc = "ready" /\ command = "status"
    /\ Finish(NoOptions, "no_token",
              status(auth_state, config_dir, config_file))

Dummy ==
    /\ pc = "ready" /\ command \in DummyCommands
    /\ Finish(NoOptions, "no_token",
              dummy(command, auth_state, config_dir, config_file))

ResourceDelete ==
    /\ pc = "ready" /\ command = "resource delete"
    /\ \E confirmed \in BOOLEAN :
         Finish(NoOptions, "no_token",
                resource_delete(confirmed, auth_state, config_dir,
                                config_file))

NextRead ==
    StartRead \/ Whoami \/ Account \/ Status \/ Dummy \/ ResourceDelete

SpecRead == Init /\ [][NextRead]_vars

(***************************************************************************)
(* Which credential a login obtains, and the calls it makes to obtain it   *)
(***************************************************************************)
SdkCall(op, tenant_id) == [op |-> op, tenant |-> tenant_id]

\* the SDK calls of get_azure_credential(tenant_id), in order: the
\* constructors of lines 82, 86 and 92 with their tenant_id argument, and
\* the test get_token of line 88
get_azure_credential_calls(tenant_id, available, az) ==
    IF ~available THEN <<>>
    ELSE IF Truthy(tenant_id)
    THEN <<SdkCall("InteractiveBrowserCredential", tenant_id)>>
    ELSE <<SdkCall("AzureCliCredential", PyNone), SdkCall("get_token", PyNone)>>
         \o (IF az.cli = "auth_error"
             THEN <<SdkCall("InteractiveBrowserCredential", PyNone)>>
             ELSE <<>>)

\* the calls of login that concern the credential, in order: that of
\* get_azure_credential (line 107), those it makes, and the get_token of
\* line 121
login_calls(args, state, available, az) ==
    IF Truthy(is_authenticated(state)) \/ args.demo \/ ~available THEN <<>>
    ELSE <<SdkCall("get_azure_credential", args.tenant)>>
         \o get_azure_credential_calls(args.tenant, available, az)
         \o (IF Truthy(get_azure_credential(args.tenant, available, az))
             THEN <<SdkCall("get_token", PyNone)>>
             ELSE <<>>)

\* one process, a login
StartLogin ==
    /\ pc = "off"
    /\ StartWith({"login"})

\* get_azure_credential(tenant_id) called on its own
GetAzureCredential ==
    /\ pc = "off"
    /\ \E tenant_id \in Tenants, az \in SdkBehaviours :
         call' = [op |-> "get_azure_credential", n |-> 1,
                  tenant |-> tenant_id, az |-> az,
                  ret |-> get_azure_credential(tenant_id, AZURE_AVAILABLE, az),
                  calls |-> get_azure_credential_calls(tenant_id,
                                                       AZURE_AVAILABLE, az)]
    /\ pc' = "returned"
    /\ UNCHANGED <<config_dir, config_file, AZURE_AVAILABLE, auth_state,
                   command, last, prev, jwtVars, clearVars, concVars>>

\* login, with the calls it made
LoginCalls ==
    /\ pc = "ready" /\ command = "login"
    /\ \E opts \in LoginOptions :
         \E az \in IF opts.demo THEN {SdkUnused} ELSE SdkBehaviours :
            LET h == login(opts, auth_state, config_dir, config_file,
                           AZURE_AVAILABLE, az, "ok")
            IN  /\ auth_state' = h.state
                /\ config_dir' = h.dir
                /\ config_file' = h.file
                /\ last' = Observed(command, opts, h.exc, h.out, h.save, TRUE,
                                    config_dir, config_file, auth_state,
                                    h.state,
                                    TokenSeen(opts, auth_state,
                                              AZURE_AVAILABLE, az))
                /\ call' = [op |-> "login", n |-> 1, az |-> az,
                            calls |-> login_calls(opts, auth_state,
                                                  AZURE_AVAILABLE, az)]
    /\ prev' = Brief(last)
    /\ pc' = "exited"
    /\ UNCHANGED <<AZURE_AVAILABLE, command, jwtVars, clearVars, concVars>>

NextCredential == StartLogin \/ GetAzureCredential \/ LoginCalls

SpecCredential == Init /\ [][NextCredential]_vars

(***************************************************************************)
(* The CLI under user interruption: every process receives a               *)
(* KeyboardInterrupt, while the module is imported or at a point of its    *)
(* command handler.                                                        *)
(***************************************************************************)
\* where the interrupt arrives in a handler: at its first statement, while
\* credential.get_token waits (line 121), before save_auth_state is called,
\* between open(CONFIG_FILE, "w") and the end of json.dump (lines 68-69),
\* after save_auth_state returned
InterruptPoints ==
    {"entry", "get_token", "before_save", "during_write", "after_save"}

\* an SDK that signs the user in
SdkReturnsToken ==
    [cli |-> "ok", browser |-> "ok", get_token |-> "token",
     token |-> Token(WellFormedChars,
                     JsonText(ClaimsObject({"upn", "name", "tid"})))]

\* whether the handler, whose uninterrupted run is h, passes the point
PointReached(point, cmd, opts, h, state, available) ==
    CASE point = "entry" -> TRUE
      [] point = "get_token" ->
            /\ cmd = "login" /\ ~opts.demo
            /\ ~Truthy(is_authenticated(state))
            /\ Truthy(get_azure_credential(opts.tenant, available,
                                           SdkReturnsToken))
      [] point = "before_save" -> h.save.called
      [] point = "during_write" -> h.save.wrote
      [] OTHER -> h.save.called /\ h.exc = "none"

\* the handler interrupted at the point.  KeyboardInterrupt is no Exception:
\* no except clause of the handlers catches it, and it leaves cli() (line
\* 455) through click's standalone mode, which prints "Aborted!" and exits
\* with status 1.  Were it caught at line 147, the login would report a
\* failed authentication.  An interrupt between open(..., "w") and the end
\* of json.dump leaves a truncated file.
InterruptedAt(point, h, state, dir, file) ==
    IF point = "get_token" /\ "KeyboardInterrupt" \in CaughtByExceptException
    THEN Handled("none", Notice("authentication_failed"), state, dir, file,
                 NoSave)
    ELSE Handled("KeyboardInterrupt", Notice("aborted"),
                 IF point \in {"entry", "get_token"} THEN state ELSE h.state,
                 IF point \in {"during_write", "after_save"} THEN h.dir
                 ELSE dir,
                 CASE point = "during_write" -> FileMalformed
                   [] point = "after_save" -> h.file
                   [] OTHER -> file,
                 NoSave)

\* the uninterrupted run of the command
Uninterrupted(cmd, opts, state, dir, file, available) ==
    CASE cmd = "login" ->
            login(opts, state, dir, file, available, SdkReturnsToken, "ok")
      [] cmd = "logout" -> logout(state, dir, file, "ok")
      [] OTHER -> whoami(state, dir, file)

\* the interrupt arrives while the module is imported (lines 1-452, the
\* load of line 213 among them): no try encloses these, the interpreter
\* prints the traceback and ends the process by SIGINT, status 130
ImportInterrupted(cmd, dir, file) ==
    [ImportFailed(cmd, "KeyboardInterrupt", dir, file) EXCEPT !.exit = 130]

StartInterrupted ==
    /\ pc # "ready"
    /\ \E cmd \in Commands :
         /\ command' = cmd
         /\ last' = ImportInterrupted(cmd, config_dir, config_file)
    /\ prev' = Brief(last)
    /\ pc' = "interrupted"
    /\ auth_state' = InitialAuthState
    /\ UNCHANGED <<config_dir, config_file, AZURE_AVAILABLE, jwtVars,
                   clearVars, callVars, concVars>>

Interrupted ==
    /\ pc = "ready"
    /\ \E point \in InterruptPoints :
         \E opts \in IF command = "login" THEN LoginOptions ELSE {NoOptions} :
            /\ PointReached(point, command, opts,
                            Uninterrupted(command, opts, auth_state,
                                          config_dir, config_file,
                                          AZURE_AVAILABLE),
                            auth_state, AZURE_AVAILABLE)
            /\ Finish(opts, "no_token",
                      InterruptedAt(point,
                                    Uninterrupted(command, opts, auth_state,
                                                  config_dir, config_file,
                                                  AZURE_AVAILABLE),
                                    auth_state, config_dir, config_file))

NextInterrupt == Start \/ StartInterrupted \/ Interrupted

SpecInterrupt == Init /\ [][NextInterrupt]_vars

(***************************************************************************)
(* load_auth_state on its own, from any _auth_state                        *)
(***************************************************************************)
\* state files whose "auth" object holds a subset of the keys of a
\* signed-in or of a signed-out state
PartialAuthFiles ==
    {FileJson(PyDict([a \in {"auth"} |-> PyDict([k \in ks |-> src[k]])])) :
        ks \in SUBSET {"is_authenticated", "user_info", "tenant_id"},
        src \in {DemoAuth, InitialAuthState}}

InitLoad ==
    /\ \/ \E d \in Disks : config_dir = d[1] /\ config_file = d[2]
       \/ config_dir = "present" /\ config_file \in PartialAuthFiles
    /\ auth_state \in AuthStates
    /\ AZURE_AVAILABLE = FALSE
    /\ pc = "off"
    /\ command = "none"
    /\ last = NoRun
    /\ prev = Brief(NoRun)
    /\ token_string = Token(<<>>, NotJson)
    /\ parsed = NotParsed
    /\ cleared = NotCleared
    /\ call = NoCall
    /\ procs = NoProcs

\* one call of load_auth_state()
LoadAuthState ==
    /\ call.n = 0
    /\ LET ld == load_auth_state(auth_state, config_file)
       IN  /\ auth_state' = ld.state
           /\ call' = [op |-> "load", n |-> 1, exc |-> ld.exc,
                       stateBefore |-> auth_state]
    /\ UNCHANGED <<config_dir, config_file, AZURE_AVAILABLE, pc, command, last,
                   prev, jwtVars, clearVars, concVars>>

NextLoad == LoadAuthState

SpecLoad == InitLoad /\ [][NextLoad]_vars

(***************************************************************************)
(* save_auth_state on its own, called twice in a row                       *)
(***************************************************************************)
InitSave == InitLoad

\* one call of save_auth_state(); the disk accepts or refuses the write of
\* the second call as it did that of the first
SaveAuthState ==
    /\ call.n < 2
    /\ \E wr \in IF call.n = 0 THEN WriteOutcomes ELSE {call.wr} :
         LET sv == save_auth_state(auth_state, config_dir, config_file, wr)
         IN  /\ config_dir' = sv.dir
             /\ config_file' = sv.file
             /\ call' =
                   IF call.n = 0
                   THEN [op |-> "save", n |-> 1, wr |-> wr,
                         dirBefore |-> config_dir, fileBefore |-> config_file,
                         once |-> [exc |-> sv.exc, wrote |-> sv.wrote,
                                   dir |-> sv.dir, file |-> sv.file]]
                   ELSE [call EXCEPT !.n = 2]
    /\ UNCHANGED <<auth_state, AZURE_AVAILABLE, pc, command, last, prev,
                   jwtVars, clearVars, concVars>>

NextSave == SaveAuthState

SpecSave == InitSave /\ [][NextSave]_vars

(***************************************************************************)
(* Properties                                                              *)
(***************************************************************************)
StoredKeys == {"is_authenticated", "user_info", "tenant_id"}

\* C1: in every reachable state of a process, user_info is non-null if and
\* only if is_authenticated is true.
UserInfoIffAuthenticated ==
    (auth_state["user_info"] # PyNone)
        <=> Truthy(auth_state["is_authenticated"])

SaveThenLoadRoundTrip ==
    last.save.wrote =>
        /\ LET ld == load_auth_state(InitialAuthState, config_file)
           IN  /\ ld.exc = "none"
               /\ \A k \in StoredKeys : ld.state[k] = last.save.saved.m[k]
        /\ pc # "crashed"
        /\ pc = "ready" =>
              \A k \in StoredKeys : auth_state[k] = last.save.saved.m[k]

\* a process has started after a login saved a signed-in state, and holds it
SaveThenLoadRoundTripReached ==
    /\ pc = "ready"
    /\ last.save.wrote
    /\ last.cmd = "login"
    /\ auth_state["is_authenticated"] = PyBool(TRUE)
    /\ auth_state["user_info"] = last.stateAfter["user_info"]
    /\ auth_state["user_info"] # PyNone
    /\ auth_state["tenant_id"] # PyNone

\* the state files on which the load of line 47 does not succeed
LoadFails(file) ==
    \/ file.k # "json"
    \/ file.v.t # "dict"
    \/ "auth" \in DOMAIN file.v.m /\ file.v.m["auth"].t # "dict"

\* C4: load_auth_state() never raises, whatever the state file holds, and
\* leaves _auth_state at its defaults when the file is absent, unreadable,
\* not JSON, or JSON whose top level or "auth" value is not an object.
LoadNeverRaises ==
    /\ pc # "crashed"
    /\ (pc = "ready" /\ LoadFails(config_file)) =>
          auth_state = InitialAuthState

MalformedFile(file) ==
    file.k = "malformed" \/ (file.k = "json" /\ file.v.t # "dict")

\* C5: when the state file is not valid JSON, or JSON that is not an
\* object, the save_auth_state() of login --demo, of a real login and of
\* logout raises nothing to its caller and the command does not fail.
SaveRecoversFromMalformedFile ==
    (last.save.called /\ MalformedFile(last.fileBefore)) =>
        /\ last.save.exc = "none"
        /\ last.exit = 0
        /\ last.out.kind # "authentication_failed"

\* C6: an I/O failure during save_auth_state() (the directory cannot be
\* created, the file cannot be read, the file cannot be written) is
\* swallowed: the save returns normally and _auth_state keeps the values
\* the command set.
SaveSwallowsIOFailure ==
    (/\ last.save.called
     /\ \/ last.dirBefore = "blocked"
        \/ last.fileBefore = FileUnreadable
        \/ last.save.swallowed) =>
        /\ last.save.exc = "none"
        /\ \A k \in StoredKeys : last.stateAfter[k] = last.save.saved.m[k]

\* C7: a login without --demo that fails to authenticate ends the process
\* with a non-zero exit status.
FailedLoginExitsNonZero ==
    (/\ last.ran /\ last.cmd = "login" /\ ~last.demo
     /\ last.out.kind = "authentication_failed") =>
        last.exit # 0

\* C8: the whoami that follows a login --demo reports the demo identity, and
\* the whoami that follows a logout reports that nobody is signed in, from
\* every initial content of the state file.  Stated for a configuration
\* directory that exists, for the commands whose handler was entered, for
\* the logins that did not find a user already signed in, and for commands
\* whose write of the file was not refused.
DemoLoginThenWhoami ==
    /\ (/\ prev.cmd = "login" /\ prev.demo /\ prev.ran /\ last.cmd = "whoami"
        /\ last.dirBefore = "present"
        /\ prev.kind # "already_authenticated" /\ ~prev.swallowed) =>
          /\ last.out.kind = "identity"
          /\ last.out.user = PyStr("demo.user@contoso.com")
    /\ (/\ prev.cmd = "logout" /\ prev.ran /\ last.cmd = "whoami"
        /\ last.dirBefore = "present" /\ ~prev.swallowed) =>
          last.out.kind = "not_authenticated"

\* the payload of a three-segment token does not decode to a JSON object
PayloadFails(token) ==
    LET segment == Split(token.chars, ".")[2]
        dec == urlsafe_b64decode(
                  segment \o Repeat("=", PaddingFor(Len(segment))))
    IN  \/ dec.exc # "none"
        \/ dec.nbytes = 0
        \/ token.bytes.k # "json"
        \/ token.bytes.v.t # "dict"

UserInfoKeys ==
    {"user_id", "display_name", "tenant_id", "tenant_name", "object_id",
     "roles"}

\* C9: parse_jwt_token never raises: for every input it returns a claims
\* record or None, and it returns None whenever the payload segment is not
\* valid base64url, its bytes are not JSON, or the JSON is not an object.
ParseNeverRaises ==
    parsed.called =>
        /\ parsed.exc = "none"
        /\ \/ parsed.ret = PyNone
           \/ parsed.ret.t = "dict" /\ DOMAIN parsed.ret.m = UserInfoKeys
        /\ (Count(token_string.chars, ".") = 2 /\ PayloadFails(token_string))
              => parsed.ret = PyNone /\ parsed.warned

\* a payload that is JSON but no object (a list holding "upn") was decoded,
\* the lookup raised inside, and None was returned with the warning
ParseNeverRaisesReached ==
    /\ parsed.called
    /\ token_string.bytes = JsonText(PyList(<<PyStr("upn")>>))
    /\ parsed.decoded /\ parsed.warned
    /\ urlsafe_b64decode(parsed.padded).nbytes > 0
    /\ parsed.exc = "none" /\ parsed.ret = PyNone

\* C10: for a token string without exactly two "." separators,
\* parse_jwt_token returns None, raises nothing and decodes no segment.
WrongSegmentCountGivesNone ==
    (parsed.called /\ Count(token_string.chars, ".") # 2) =>
        /\ parsed.exc = "none"
        /\ parsed.ret = PyNone
        /\ ~parsed.decoded
        /\ ~parsed.warned

\* a token of four segments whose second segment would decode to an object
\* was given, and None came back without a decode
WrongSegmentCountGivesNoneReached ==
    /\ parsed.called
    /\ Count(token_string.chars, ".") = 3
    /\ ~PayloadFails(token_string)
    /\ parsed.ret = PyNone /\ ~parsed.decoded

\* a token of three segments whose payload decodes to a JSON object
WellFormedToken(token) ==
    Count(token.chars, ".") = 2 /\ ~PayloadFails(token)

\* the claims of the payload of a well-formed token, as a key -> value map
PayloadClaims == token_string.bytes.v.m

\* the value of the first of the claims in order that the payload holds
RECURSIVE FirstPresent(_, _, _)
FirstPresent(order, m, default) ==
    IF order = <<>> THEN default
    ELSE IF Head(order) \in DOMAIN m THEN m[Head(order)]
    ELSE FirstPresent(Tail(order), m, default)

\* C11: for a well-formed token, user_id is the value of the first of upn,
\* unique_name, email, sub that the payload holds, whatever lower-priority
\* claims it also holds, and the string "unknown" when it holds none.
UserIdFirstMatchWins ==
    (parsed.called /\ WellFormedToken(token_string)) =>
        /\ parsed.ret.t = "dict"
        /\ parsed.ret.m["user_id"] =
              FirstPresent(<<"upn", "unique_name", "email", "sub">>,
                           PayloadClaims, PyStr("unknown"))

\* a payload without upn that holds unique_name, email and sub was parsed:
\* user_id is the unique_name
UserIdFirstMatchWinsReached ==
    /\ parsed.called /\ WellFormedToken(token_string)
    /\ {"unique_name", "email", "sub"} \subseteq DOMAIN PayloadClaims
    /\ "upn" \notin DOMAIN PayloadClaims
    /\ parsed.ret.m["user_id"] = PyStr("alice.unique")

\* C12: for a token that was parsed, display_name is the name claim when
\* the payload has one, and the resolved user_id otherwise ("unknown" when
\* the payload has no identity claim).
DisplayNameDefaultsToUserId ==
    (parsed.called /\ parsed.ret # PyNone) =>
        /\ WellFormedToken(token_string)
        /\ parsed.ret.m["display_name"] =
              IF "name" \in DOMAIN PayloadClaims
              THEN PayloadClaims["name"]
              ELSE parsed.ret.m["user_id"]
        /\ ({"upn", "unique_name", "email", "sub", "name"}
               \cap DOMAIN PayloadClaims = {})
              => parsed.ret.m["display_name"] = PyStr("unknown")

\* a payload with sub and no name was parsed: display_name is the sub
DisplayNameDefaultsToUserIdReached ==
    /\ parsed.called /\ parsed.ret # PyNone
    /\ DOMAIN PayloadClaims = {"sub"}
    /\ PayloadClaims["sub"] = PyStr("subject-1")
    /\ parsed.ret.m["display_name"] = PyStr("subject-1")

\* C13: a parsed token yields a record of exactly the six keys, with
\* tenant_id the tid claim, tenant_name the tenant_name claim, object_id
\* the oid claim (null when absent) and roles the roles claim (an empty
\* list when absent); {upn, name, tid} yields those three values.
UserInfoHasSixKeys ==
    (parsed.called /\ parsed.ret # PyNone) =>
        /\ parsed.ret.t = "dict"
        /\ DOMAIN parsed.ret.m = UserInfoKeys
        /\ parsed.ret.m["tenant_id"] = DictGet(PayloadClaims, "tid", PyNone)
        /\ parsed.ret.m["tenant_name"] =
              DictGet(PayloadClaims, "tenant_name", PyNone)
        /\ parsed.ret.m["object_id"] = DictGet(PayloadClaims, "oid", PyNone)
        /\ parsed.ret.m["roles"] = DictGet(PayloadClaims, "roles", PyList(<<>>))
        /\ (token_string.bytes = JsonText(ClaimsObject({"upn", "name", "tid"})))
              => /\ parsed.ret.m["user_id"] = PyStr("alice@contoso.com")
                 /\ parsed.ret.m["display_name"] = PyStr("Alice")
                 /\ parsed.ret.m["tenant_id"] = PyStr("tenant-1")

\* the payload {upn, name, tid} was parsed: roles is the empty list and
\* object_id null
UserInfoHasSixKeysReached ==
    /\ parsed.called
    /\ token_string.bytes = JsonText(ClaimsObject({"upn", "name", "tid"}))
    /\ parsed.ret # PyNone
    /\ parsed.ret.m["tenant_id"] = PyStr("tenant-1")
    /\ parsed.ret.m["roles"] = PyList(<<>>)
    /\ parsed.ret.m["object_id"] = PyNone

\* the least k >= 0 for which n + k is a multiple of 4
LeastPadding(n) == CHOOSE k \in 0..3 : (n + k) % 4 = 0

\* C14: the number of "=" appended to a payload segment of length n before
\* it is decoded is the least k >= 0 with (n + k) % 4 = 0: none when n is a
\* multiple of 4, and never more than 3.
PaddingIsMinimal ==
    (parsed.called /\ parsed.decoded) =>
        LET n == Len(Split(token_string.chars, ".")[2])
            k == Len(parsed.padded) - n
        IN  /\ k = LeastPadding(n)
            /\ k <= 3
            /\ (n % 4 = 0) => k = 0

\* C15: once save_auth_state() has written the file, its "auth" object has
\* exactly the keys is_authenticated, user_info and tenant_id with the
\* values of _auth_state; a key the previous "auth" object held beside them
\* is gone, and no "auth" object of the file ever holds the live credential.
SavedAuthHasThreeKeys ==
    /\ last.save.wrote =>
          /\ IsObjectFile(config_file)
          /\ "auth" \in DOMAIN config_file.v.m
          /\ config_file.v.m["auth"].t = "dict"
          /\ DOMAIN config_file.v.m["auth"].m = StoredKeys
          /\ \A k \in StoredKeys :
                config_file.v.m["auth"].m[k] = last.stateAfter[k]
    /\ (/\ IsObjectFile(config_file)
        /\ "auth" \in DOMAIN config_file.v.m
        /\ config_file.v.m["auth"].t = "dict") =>
          \A k \in DOMAIN config_file.v.m["auth"].m :
              config_file.v.m["auth"].m[k].t # "credential"

\* a login through the SDK, holding its credential in memory, rewrote a file
\* whose "auth" object had a credential key: the key is gone
SavedAuthHasThreeKeysReached ==
    /\ last.save.wrote
    /\ last.cmd = "login"
    /\ last.stateAfter["credential"].t = "credential"
    /\ IsObjectFile(last.fileBefore)
    /\ "auth" \in DOMAIN last.fileBefore.v.m
    /\ last.fileBefore.v.m["auth"].t = "dict"
    /\ "credential" \in DOMAIN last.fileBefore.v.m["auth"].m
    /\ "credential" \notin DOMAIN config_file.v.m["auth"].m
    /\ config_file.v.m["auth"].m["is_authenticated"] = PyBool(TRUE)

\* C16: from any _auth_state and any state file holding a JSON object, a
\* second clear_auth_state() in a row leaves _auth_state and the state file
\* as the first call left them, with is_authenticated false and user_info,
\* tenant_id and credential null.
ClearIsIdempotent ==
    (cleared.calls >= 1 /\ IsObjectFile(cleared.fileBefore)) =>
        /\ auth_state["is_authenticated"] = PyBool(FALSE)
        /\ auth_state["user_info"] = PyNone
        /\ auth_state["tenant_id"] = PyNone
        /\ auth_state["credential"] = PyNone
        /\ cleared.once.exc = "none"
        /\ auth_state = cleared.once.state
        /\ config_file = cleared.once.file
        /\ config_dir = cleared.once.dir

\* clear_auth_state() ran twice from a signed-in state holding a credential
\* over a file that recorded a signed-in user; the file records the cleared
\* state beside other_setting
ClearIsIdempotentReached ==
    /\ cleared.calls = 2
    /\ cleared.stateBefore["credential"].t = "credential"
    /\ cleared.stateBefore["user_info"] # PyNone
    /\ cleared.fileBefore = FileJson(PyDict(DictSet(OtherSettings, "auth",
                                                    PyDict(DemoAuth))))
    /\ config_file # cleared.fileBefore
    /\ config_file.v.m["auth"].m["is_authenticated"] = PyBool(FALSE)
    /\ config_file.v.m["auth"].m["user_info"] = PyNone
    /\ config_file.v.m["other_setting"] = PyStr("x")

\* C17: a logout that finds nobody signed in leaves _auth_state as it was
\* and does not create or rewrite the state file or its directory; a logout
\* that finds a user signed in resets every field of _auth_state and saves
\* the cleared state, which is in the file unless the write was refused.
LogoutNoOpUnlessAuthenticated ==
    (last.ran /\ last.cmd = "logout") =>
        IF ~Truthy(is_authenticated(last.stateBefore))
        THEN /\ last.stateAfter = last.stateBefore
             /\ ~last.save.called
             /\ config_file = last.fileBefore
             /\ config_dir = last.dirBefore
             /\ last.out.kind = "not_authenticated"
             /\ last.exit = 0
        ELSE /\ last.stateAfter["is_authenticated"] = PyBool(FALSE)
             /\ last.stateAfter["user_info"] = PyNone
             /\ last.stateAfter["tenant_id"] = PyNone
             /\ last.stateAfter["credential"] = PyNone
             /\ last.save.called
             /\ last.save.exc = "none"
             /\ last.out.kind = "logged_out"
             /\ ~last.save.swallowed =>
                   /\ last.save.wrote
                   /\ config_file.v.m["auth"] = AuthToSave(last.stateAfter)

\* a logout cleared and saved the state, and the logout of the next process
\* found nobody signed in and left the file with the cleared state alone
LogoutNoOpUnlessAuthenticatedReached ==
    /\ prev.cmd = "logout" /\ prev.ran /\ prev.kind = "logged_out"
    /\ ~prev.swallowed
    /\ last.cmd = "logout" /\ last.ran
    /\ last.out.kind = "not_authenticated"
    /\ config_file = last.fileBefore
    /\ config_file.v.m["auth"].m["is_authenticated"] = PyBool(FALSE)
    /\ config_file.v.m["auth"].m["user_info"] = PyNone

\* the command reported success after changing _auth_state
SucceededAndChanged ==
    /\ last.ran
    /\ last.exit = 0
    /\ last.out.kind \in {"authenticated_demo", "authenticated", "logged_out"}
    /\ \E k \in StoredKeys : last.stateAfter[k] # last.stateBefore[k]

\* the "auth" object of the state file holds the values of _auth_state
FileHoldsAuthState ==
    /\ IsObjectFile(config_file)
    /\ "auth" \in DOMAIN config_file.v.m
    /\ config_file.v.m["auth"] = AuthToSave(last.stateAfter)

\* C18 as stated: at the end of every successful demo login, successful
\* real login and logout that changed is_authenticated, user_info or
\* tenant_id, provided the write of the file did not fail, the "auth"
\* object of the state file equals the values in memory.
PersistedUnlessWriteFailed ==
    (/\ SucceededAndChanged
     /\ ~(last.save.swallowed /\ last.fileBefore # FileUnreadable)) =>
        FileHoldsAuthState

\* C18, amended: at the end of every successful demo login, successful real
\* login and logout that changed is_authenticated, user_info or tenant_id,
\* provided save_auth_state met no I/O failure reading the existing file or
\* writing it, the "auth" object of the state file equals the values in
\* memory.
PersistedUnlessIOFailed ==
    (SucceededAndChanged /\ ~last.save.swallowed) =>
        /\ last.save.wrote
        /\ FileHoldsAuthState

\* a login through the SDK succeeded with a parsed token and the file holds
\* its identity and tenant
PersistedUnlessIOFailedReached ==
    /\ SucceededAndChanged
    /\ last.cmd = "login" /\ ~last.demo
    /\ last.save.wrote
    /\ FileHoldsAuthState
    /\ config_file.v.m["auth"].m["is_authenticated"] = PyBool(TRUE)
    /\ config_file.v.m["auth"].m["user_info"].m["user_id"] =
          PyStr("alice@contoso.com")
    /\ config_file.v.m["auth"].m["tenant_id"] = PyStr("tenant-1")

\* C19: in every state file the program has written, user_info of the "auth"
\* object is null or an object with all of user_id, display_name, tenant_id,
\* tenant_name, object_id and roles, whichever login path produced it.
WrittenUserInfoHasSixKeys ==
    last.save.wrote =>
        \/ config_file.v.m["auth"].m["user_info"] = PyNone
        \/ /\ config_file.v.m["auth"].m["user_info"].t = "dict"
           /\ UserInfoKeys \subseteq
                 DOMAIN config_file.v.m["auth"].m["user_info"].m

\* C20: whenever the SDK returns a token and parse_jwt_token returns no
\* claims, the login succeeds with is_authenticated true and user_info the
\* placeholder identity, and that state is saved (it is in the file unless
\* an I/O failure was swallowed).
TokenFallbackLoginSucceeds ==
    (last.ran /\ last.cmd = "login" /\ last.token = "no_claims") =>
        /\ last.out.kind = "authenticated"
        /\ last.exit = 0
        /\ last.stateAfter["is_authenticated"] = PyBool(TRUE)
        /\ last.stateAfter["user_info"] = FallbackUserInfo
        /\ last.save.called
        /\ ~last.save.swallowed => FileHoldsAuthState

\* C21: whenever authenticate_user returns False, whatever the cause (an
\* error raised while saving included), _auth_state and the state file are
\* exactly as they were before the call.
FailedLoginChangesNothing ==
    (/\ last.ran /\ last.cmd = "login" /\ ~last.demo
     /\ last.out.kind = "authentication_failed") =>
        /\ last.stateAfter = last.stateBefore
        /\ config_file = last.fileBefore
        /\ config_dir = last.dirBefore

\* C28: a login that finds a user signed in, whatever its options and
\* whatever the SDK would do, reports it and returns: _auth_state is as it
\* was, nothing is saved and the state file is untouched; so the identity
\* in _auth_state changes only in a process that found nobody signed in.
LoginWhenAuthenticatedIsNoOp ==
    /\ (/\ last.ran /\ last.cmd = "login"
        /\ Truthy(is_authenticated(last.stateBefore))) =>
          /\ last.out.kind = "already_authenticated"
          /\ last.exit = 0
          /\ last.token = "no_token"
          /\ last.stateAfter = last.stateBefore
          /\ ~last.save.called
          /\ config_file = last.fileBefore
          /\ config_dir = last.dirBefore
    /\ (/\ last.ran /\ last.cmd = "login"
        /\ last.stateAfter["user_info"] # last.stateBefore["user_info"]) =>
          ~Truthy(is_authenticated(last.stateBefore))

\* a login --demo --tenant t1 found the demo user of another tenant signed
\* in and left memory and file alone
LoginWhenAuthenticatedIsNoOpReached ==
    /\ last.ran /\ last.cmd = "login" /\ last.demo
    /\ last.tenant = PyStr("t1")
    /\ last.stateBefore["is_authenticated"] = PyBool(TRUE)
    /\ last.stateBefore["tenant_id"] = PyStr("demo-tenant-id")
    /\ last.out.kind = "already_authenticated"
    /\ last.stateAfter = last.stateBefore
    /\ config_file = last.fileBefore

\* the login reported success
LoginSucceeded ==
    /\ last.ran /\ last.cmd = "login"
    /\ last.out.kind \in {"authenticated_demo", "authenticated"}

\* the tid of the token when it parsed and carries a non-empty one
TokenTenant ==
    IF /\ last.token = "claims"
       /\ Truthy(DictGet(last.stateAfter["user_info"].m, "tenant_id", PyNone))
    THEN last.stateAfter["user_info"].m["tenant_id"]
    ELSE PyNone

\* C29 as stated: after a successful login tenant_id is the --tenant value
\* when one was given; otherwise, for a login through the SDK, the tid of
\* the token when the token parsed and carries a non-empty tid, else null;
\* otherwise, for a demo login, "demo-tenant-id".
TenantIdAfterLogin ==
    LoginSucceeded =>
        last.stateAfter["tenant_id"] =
            IF Truthy(last.tenant) THEN last.tenant
            ELSE IF last.demo THEN PyStr("demo-tenant-id")
            ELSE TokenTenant

\* C29, amended: after a successful login tenant_id is the --tenant value
\* when a non-empty one was given; otherwise, for a demo login,
\* "demo-tenant-id"; otherwise the tid of the token when the token parsed
\* and carries a non-empty tid, else the --tenant value as passed: null
\* without the option, the empty string for --tenant "".  The file holds
\* the same value once the save has written it.
TenantIdAfterLoginAsPassed ==
    LoginSucceeded =>
        /\ last.stateAfter["tenant_id"] =
              IF Truthy(last.tenant) THEN last.tenant
              ELSE IF last.demo THEN PyStr("demo-tenant-id")
              ELSE IF TokenTenant # PyNone THEN TokenTenant
              ELSE last.tenant
        /\ last.save.wrote =>
              config_file.v.m["auth"].m["tenant_id"] =
                  last.stateAfter["tenant_id"]

\* a login --tenant t1 through the SDK got a token of tenant-1: t1 is stored
TenantIdAfterLoginAsPassedReached ==
    /\ LoginSucceeded /\ ~last.demo
    /\ last.tenant = PyStr("t1")
    /\ last.token = "claims"
    /\ last.stateAfter["user_info"].m["tenant_id"] = PyStr("tenant-1")
    /\ last.stateAfter["tenant_id"] = PyStr("t1")
    /\ last.save.wrote
    /\ config_file.v.m["auth"].m["tenant_id"] = PyStr("t1")

\* C24: load_auth_state() merges the "auth" object of the file into
\* _auth_state: each key the object holds takes the file's value, each key
\* it does not hold keeps the value _auth_state had before the load, and a
\* file without an "auth" key changes nothing.
LoadMerges ==
    (call.op = "load" /\ IsObjectFile(config_file)) =>
        IF "auth" \notin DOMAIN config_file.v.m
        THEN call.exc = "none" /\ auth_state = call.stateBefore
        ELSE config_file.v.m["auth"].t = "dict" =>
                /\ call.exc = "none"
                /\ DOMAIN auth_state =
                      DOMAIN call.stateBefore
                          \cup DOMAIN config_file.v.m["auth"].m
                /\ \A k \in DOMAIN auth_state :
                      auth_state[k] =
                          IF k \in DOMAIN config_file.v.m["auth"].m
                          THEN config_file.v.m["auth"].m[k]
                          ELSE call.stateBefore[k]

\* a file holding only is_authenticated: false was loaded over a signed-in
\* state: the flag is the file's, user_info and tenant_id are kept
LoadMergesReached ==
    /\ call.op = "load"
    /\ IsObjectFile(config_file)
    /\ "auth" \in DOMAIN config_file.v.m
    /\ config_file.v.m["auth"].t = "dict"
    /\ DOMAIN config_file.v.m["auth"].m = {"is_authenticated"}
    /\ call.stateBefore["is_authenticated"] = PyBool(TRUE)
    /\ auth_state["is_authenticated"] = PyBool(FALSE)
    /\ auth_state["user_info"] = DemoUserInfo
    /\ auth_state["tenant_id"] = PyStr("demo-tenant-id")

\* the top-level keys of a state file other than "auth"
OtherKeys(file) ==
    IF IsObjectFile(file)
    THEN [k \in DOMAIN file.v.m \ {"auth"} |-> file.v.m[k]]
    ELSE EmptyMap

\* C25: save_auth_state() creates the directory and the file when they are
\* missing and succeeds when they exist: the file it leaves holds the same
\* content whether or not directory and file existed, and a second save
\* with _auth_state unchanged leaves the file of the first.
SaveCreatesIfMissing ==
    (/\ call.op = "save" /\ call.wr = "ok"
     /\ call.dirBefore \in {"missing", "present"}
     /\ call.fileBefore = FileAbsent \/ IsObjectFile(call.fileBefore)) =>
        /\ call.once.exc = "none"
        /\ call.once.wrote
        /\ config_dir = "present"
        /\ config_file =
              FileJson(PyDict(DictSet(OtherKeys(call.fileBefore), "auth",
                                      AuthToSave(auth_state))))
        /\ config_file = call.once.file

\* two saves of a signed-in state ran where neither the directory nor the
\* file existed: both exist and the file holds that state
SaveCreatesIfMissingReached ==
    /\ call.op = "save" /\ call.n = 2 /\ call.wr = "ok"
    /\ call.dirBefore = "missing"
    /\ call.fileBefore = FileAbsent
    /\ config_dir = "present"
    /\ auth_state["is_authenticated"] = PyBool(TRUE)
    /\ config_file = FileJson(PyDict([a \in {"auth"} |-> AuthToSave(auth_state)]))

\* C26: a user interruption, at whatever point of whatever command it
\* arrives, is caught at the top level and reported and the process exits
\* with status 1; an error that leaves a command ends the process with a
\* non-zero status.
InterruptExitsWithStatusOne ==
    /\ last.exc = "KeyboardInterrupt" =>
          /\ last.exit = 1
          /\ last.out.kind = "aborted"
    /\ last.exc # "none" => last.exit # 0

\* C22: whoami, account, status, resource create|list|delete and config
\* set|show leave _auth_state and the state file as they found them, in
\* every state and whatever they print or raise, and is_authenticated()
\* returns the flag held in memory.
ReadCommandsChangeNothing ==
    /\ (last.ran /\ last.cmd \in ReadCommands) =>
          /\ last.stateAfter = last.stateBefore
          /\ auth_state = last.stateBefore
          /\ config_file = last.fileBefore
          /\ config_dir = last.dirBefore
          /\ ~last.save.called
    /\ is_authenticated(auth_state) = auth_state["is_authenticated"]

ReadCommandsChangeNothingReached ==
    /\ last.ran /\ last.cmd = "account"
    /\ last.out.kind = "identity"
    /\ last.fileBefore # FileAbsent
    /\ prev.ran /\ prev.cmd = "resource delete"

\* C27: for every state a load can produce, whoami, account and status
\* end without an unhandled error, having printed the identity or the
\* notice that nobody is signed in.
IdentityCommandsComplete ==
    (last.ran /\ last.cmd \in IdentityCommands) =>
        /\ last.exc = "none"
        /\ last.out.kind \in {"identity", "status", "not_authenticated"}

\* the operations called, in order
Ops(calls) == [i \in 1..Len(calls) |-> calls[i].op]

\* C30: get_azure_credential with a tenant id constructs the browser
\* credential for that tenant and never the CLI credential; without one it
\* constructs the CLI credential and tests it with get_token first, returns
\* it when the test succeeds, constructs the browser credential only when
\* the test raised ClientAuthenticationError, and returns None on any other
\* exception and when the SDK is unavailable; a login whose credential is
\* None fails, and a demo login calls none of this.
CredentialSelectionOrder ==
    /\ call.op = "get_azure_credential" =>
        /\ ~AZURE_AVAILABLE => call.ret = PyNone /\ call.calls = <<>>
        /\ (AZURE_AVAILABLE /\ Truthy(call.tenant)) =>
            /\ call.calls =
                  <<SdkCall("InteractiveBrowserCredential", call.tenant)>>
            /\ call.ret = IF call.az.browser = "ok"
                          THEN PyCredential("InteractiveBrowserCredential")
                          ELSE PyNone
        /\ (AZURE_AVAILABLE /\ ~Truthy(call.tenant)) =>
            /\ SubSeq(Ops(call.calls), 1, 2) =
                  <<"AzureCliCredential", "get_token">>
            /\ call.az.cli = "ok" =>
                  /\ call.ret = PyCredential("AzureCliCredential")
                  /\ Len(call.calls) = 2
            /\ call.az.cli = "auth_error" =>
                  /\ call.calls[3] =
                        SdkCall("InteractiveBrowserCredential", PyNone)
                  /\ call.ret = IF call.az.browser = "ok"
                                THEN PyCredential("InteractiveBrowserCredential")
                                ELSE PyNone
            /\ call.az.cli = "other_error" =>
                  /\ call.ret = PyNone
                  /\ Len(call.calls) = 2
    /\ call.op = "login" =>
        /\ last.demo => call.calls = <<>>
        /\ (call.calls # <<>>
            /\ get_azure_credential(last.tenant, AZURE_AVAILABLE, call.az)
                  = PyNone) =>
              /\ last.out.kind = "authentication_failed"
              /\ call.calls =
                    <<SdkCall("get_azure_credential", last.tenant)>>
                    \o get_azure_credential_calls(last.tenant,
                                                  AZURE_AVAILABLE, call.az)
              /\ last.stateAfter = last.stateBefore
        /\ (~last.demo /\ ~AZURE_AVAILABLE) =>
              last.out.kind \in {"authentication_failed",
                                 "already_authenticated"}

CredentialSelectionOrderReached ==
    /\ call.op = "get_azure_credential"
    /\ AZURE_AVAILABLE /\ ~Truthy(call.tenant)
    /\ call.az.cli = "other_error" /\ call.az.browser = "ok"
    /\ call.ret = PyNone

(***************************************************************************)
(* Two processes at the same time.  Each imports the module (the load of   *)
(* line 213), runs its handler up to the call of save_auth_state(), and    *)
(* saves in three steps that other processes may come between: the read   *)
(* of lines 54-59, the open(CONFIG_FILE, "w") of line 68, which empties    *)
(* the file, and the json.dump and close of line 69, which write the text  *)
(* from the start of the file.                                             *)
(***************************************************************************)
ConcurrentCommands ==
    {"login --demo", "login --demo --tenant t1", "logout"}

\* the state files the two processes may find: written by the program,
\* signed out or signed in, with or without other settings
ConcurrentFiles ==
    {FileAbsent}
    \cup {FileJson(PyDict(DictSet(o, "auth", AuthToSave(st)))) :
            o \in {EmptyMap, OtherSettings},
            st \in {InitialAuthState,
                    DemoAuthenticated(PyNone, InitialAuthState)}}

InitConcurrent ==
    /\ config_dir \in {"missing", "present"}
    /\ config_file \in ConcurrentFiles
    /\ config_dir = "missing" => config_file = FileAbsent
    /\ AZURE_AVAILABLE \in BOOLEAN
    /\ auth_state = InitialAuthState
    /\ pc = "off"
    /\ command = "none"
    /\ last = NoRun
    /\ prev = Brief(NoRun)
    /\ token_string = Token(<<>>, NotJson)
    /\ parsed = NotParsed
    /\ cleared = NotCleared
    /\ call = [op |-> "concurrent", n |-> 0, writer |-> 0,
               fileBefore |-> config_file]
    /\ procs = NoProcs

\* the handler of cmd up to its call of save_auth_state(): login --demo
\* (lines 340-357) and logout (lines 378-380 and 160)
BeforeSave(cmd, state) ==
    IF cmd # "logout"
    THEN IF Truthy(is_authenticated(state))
         THEN [changed |-> FALSE, state |-> state]
         ELSE [changed |-> TRUE,
               state |-> DemoAuthenticated(IF cmd = "login --demo" THEN PyNone
                                           ELSE PyStr("t1"), state)]
    ELSE IF ~Truthy(is_authenticated(state))
         THEN [changed |-> FALSE, state |-> state]
         ELSE [changed |-> TRUE, state |-> DictMerge(state, InitialAuthState)]

\* process p starts: the load at import, then the handler up to the save
Begin(p) ==
    /\ procs[p].pc = "off"
    /\ \E cmd \in ConcurrentCommands :
         LET ld == load_auth_state(InitialAuthState, config_file)
             h == BeforeSave(cmd, ld.state)
         IN  procs' = [procs EXCEPT ![p] =
                         [pc |-> IF ld.exc = "none" /\ h.changed
                                 THEN "saving" ELSE "done",
                          cmd |-> cmd,
                          state |-> IF ld.exc = "none" THEN h.state
                                    ELSE ld.state,
                          seen |-> FileAbsent,
                          exc |-> ld.exc,
                          changed |-> ld.exc = "none" /\ h.changed]]
    /\ UNCHANGED <<cliVars, jwtVars, clearVars, callVars>>

\* lines 54-59 of save_auth_state(): the directory, and the file read back
ReadBack(p) ==
    /\ procs[p].pc = "saving"
    /\ LET sv == save_auth_state(procs[p].state, config_dir, config_file, "ok")
       IN  /\ config_dir' = sv.dir
           /\ procs' = [procs EXCEPT ![p] =
                           [@ EXCEPT !.pc = IF sv.wrote THEN "opening"
                                            ELSE "done",
                                     !.seen = config_file,
                                     !.exc = sv.exc]]
    /\ UNCHANGED <<config_file, AZURE_AVAILABLE, auth_state, pc, command, last,
                   prev, jwtVars, clearVars, callVars>>

\* line 68: open(CONFIG_FILE, "w") leaves an empty file, which is no JSON
OpenForWriting(p) ==
    /\ procs[p].pc = "opening"
    /\ config_file' = FileMalformed
    /\ procs' = [procs EXCEPT ![p] = [@ EXCEPT !.pc = "writing"]]
    /\ UNCHANGED <<config_dir, AZURE_AVAILABLE, auth_state, pc, command, last,
                   prev, jwtVars, clearVars, callVars>>

\* the texts json.dump writes for the auth objects of this specification,
\* ordered by length: signed out (false, null, null), the demo user with
\* tenant "t1", the demo user with tenant "demo-tenant-id"
TextRank(auth) ==
    IF ~Truthy(auth.m["is_authenticated"]) THEN 0
    ELSE IF auth.m["tenant_id"] = PyStr("t1") THEN 1
    ELSE 2

\* the other keys being the same, the text of file is longer than mine
LongerText(file, mine) ==
    /\ IsObjectFile(file) /\ IsObjectFile(mine)
    /\ TextRank(file.v.m["auth"]) > TextRank(mine.v.m["auth"])

\* line 69: the text is written from the start of the file when the file
\* is closed.  What another process wrote since this one opened the file is
\* overwritten, and stays behind the new text where it was longer.
DumpAndClose(p) ==
    /\ procs[p].pc = "writing"
    /\ LET mine == save_auth_state(procs[p].state, config_dir, procs[p].seen,
                                   "ok").file
       IN  config_file' = IF LongerText(config_file, mine) THEN FileMalformed
                          ELSE mine
    /\ procs' = [procs EXCEPT ![p] = [@ EXCEPT !.pc = "done"]]
    /\ call' = [call EXCEPT !.n = @ + 1, !.writer = p]
    /\ UNCHANGED <<config_dir, AZURE_AVAILABLE, auth_state, pc, command, last,
                   prev, jwtVars, clearVars>>

NextConcurrent ==
    \E p \in Procs :
        Begin(p) \/ ReadBack(p) \/ OpenForWriting(p) \/ DumpAndClose(p)

SpecConcurrent == InitConcurrent /\ [][NextConcurrent]_vars

\* C23: when two processes each load the state and run one command that
\* changes it, their file reads and writes interleaved in any order, both
\* end without an unhandled error and the file is a JSON object whose auth
\* is the state of the process that wrote last, the other keys kept.
LastWriterWins ==
    (\A p \in Procs : procs[p].pc = "done" /\ procs[p].changed) =>
        /\ \A p \in Procs : procs[p].exc = "none"
        /\ call.writer \in Procs =>
              /\ IsObjectFile(config_file)
              /\ config_file.v.m["auth"] =
                    AuthToSave(procs[call.writer].state)
              /\ OtherKeys(config_file) = OtherKeys(call.fileBefore)

====
